---- MODULE Spec2Model ----
(***************************************************************************)
(* A model of pyvision3's frame ring buffer (ImageBuffer), the video-like  *)
(* sources it is filled from, and the MotionDetector state machine that    *)
(* sits on top of it.                                                      *)
(*                                                                         *)
(* Frames are object identities 1..NumFrames; None is the empty slot.      *)
(* Pixel arithmetic is element-wise in the source, so every image is       *)
(* represented by one pixel.                                               *)
(***************************************************************************)
EXTENDS Integers, Sequences, FiniteSets, TLC

\* ---------------------------------------------------------------- bounds
MaxN == 3          \* largest buffer capacity explored
NumFrames == 2     \* number of distinct frame objects
MaxSrc == 2        \* longest list / video handed to fill
ExtraAdds == 1     \* adds explored beyond the capacity, per clear

None == 0
Frames == 1..NumFrames
OK == "ok"

\* ------------------------------------------------------------------ Image
\* Image.__init__: the pixel data and channel count of each frame object
\* (3-channel data is in BGR order)
ImageData(f) ==
    CASE f = 1 -> [nchannels |-> 1, data |-> <<10>>]
      [] f = 2 -> [nchannels |-> 3, data |-> <<200, 100, 50>>]
      [] f = 3 -> [nchannels |-> 1, data |-> <<250>>]
      [] OTHER -> [nchannels |-> 1, data |-> <<(f * 53) % 256>>]

\* cv2.cvtColor(..., COLOR_BGR2GRAY) on 8-bit data (fixed point, 14 bits)
BGR2GRAY(px) ==
    (px[3] * 4899 + px[2] * 9617 + px[1] * 1868 + 8192) \div 16384

\* Image.as_grayscale(as_type="CV")
as_grayscale(f) ==
    IF ImageData(f).nchannels = 3
    THEN BGR2GRAY(ImageData(f).data)
    ELSE ImageData(f).data[1]

\* ------------------------------------------------------------ ImageBuffer
\* ImageBuffer.__init__
NewBuffer(N) ==
    [data |-> [i \in 1..N |-> None], count |-> 0, max |-> N]

\* ImageBuffer.__len__
len(b) == b.max

\* the mutant of is_full: full one frame early
is_full_early(b) == IF b.count >= b.max - 1 THEN TRUE ELSE FALSE

\* ImageBuffer.is_full
is_full(b) == IF b.count = b.max THEN TRUE ELSE FALSE

\* ImageBuffer.clear
clear(b) ==
    [b EXCEPT !.data = [i \in 1..b.max |-> None], !.count = 0]

\* ImageBuffer.get_count
get_count(b) == b.count

\* ImageBuffer.__getitem__ (0-based key, negative keys count from the end)
getitem(b, key) ==
    IF key < 0 THEN b.data[Len(b.data) + key + 1] ELSE b.data[key + 1]

\* ImageBuffer.first
first(b) == getitem(b, 0)

\* ImageBuffer.last
last(b) == getitem(b, -1)

\* ImageBuffer.middle
middle(b) == LET mid == b.count \div 2 IN getitem(b, mid)

\* two faulty variants of add: no eviction of the oldest frame; no cap on count
add_no_evict(b, image) ==
    [b EXCEPT !.data = <<image>> \o SubSeq(b.data, 1, Len(b.data) - 1),
              !.count = IF b.count + 1 > b.max THEN b.max ELSE b.count + 1]

add_no_cap(b, image) ==
    [b EXCEPT !.data = Append(Tail(b.data), image),
              !.count = b.count + 1]

\* ImageBuffer.add: pop(0), append, count += 1 capped at max
add(b, image) ==
    [b EXCEPT !.data = Append(Tail(b.data), image),
              !.count = IF b.count + 1 > b.max THEN b.max ELSE b.count + 1]

\* ---------------------------------------------------------------- sources
\* a list of images handed to fill
ListSource(items) == [kind |-> "list", image_stack |-> items,
                      current_frame_num |-> 0, num_frames |-> Len(items)]

\* VideoFromImageStack.__init__, advanced to position pos by the caller
VideoFromImageStack(image_stack, pos) ==
    [kind |-> "video", image_stack |-> image_stack,
     current_frame_num |-> pos, num_frames |-> Len(image_stack)]

\* VideoFromImageStack.__next__
video_next(v) ==
    IF v.current_frame_num >= v.num_frames
    THEN [err |-> "StopIteration", im |-> None, vid |-> v]
    ELSE [err |-> OK, im |-> v.image_stack[v.current_frame_num + 1],
          vid |-> [v EXCEPT !.current_frame_num = v.current_frame_num + 1]]

\* the mutant of list_step: the read position is never advanced
list_step_no_advance(source, cur_pos) ==
    [im |-> source.image_stack[cur_pos + 1], cur_pos |-> cur_pos]

\* fill, list branch: im = source[cur_pos]; cur_pos += 1; cur_pos %= len
list_step(source, cur_pos) ==
    [im |-> source.image_stack[cur_pos + 1],
     cur_pos |-> (cur_pos + 1) % Len(source.image_stack)]

\* the while loop of ImageBuffer.fill; added lists the frames passed to add
RECURSIVE fill_loop(_, _, _, _)
fill_loop(b, source, cur_pos, added) ==
    IF is_full(b)
    THEN [buf |-> b, err |-> OK, added |-> added, source |-> source]
    ELSE IF source.kind = "video"
    THEN LET r == video_next(source) IN
         IF r.err # OK
         THEN [buf |-> b, err |-> r.err, added |-> added, source |-> source]
         ELSE fill_loop(add(b, r.im), r.vid, cur_pos, Append(added, r.im))
    ELSE IF cur_pos >= Len(source.image_stack)
    THEN [buf |-> b, err |-> "IndexError", added |-> added, source |-> source]
    ELSE LET s == list_step(source, cur_pos) IN
         fill_loop(add(b, s.im), source, s.cur_pos, Append(added, s.im))

\* the mutant of fill: no assertion, and the loop body runs before the test
fill_no_assert(b, source) ==
    IF is_full(b) /\ source.num_frames > source.current_frame_num
    THEN LET im == source.image_stack[source.current_frame_num + 1] IN
         [buf |-> add(b, im), err |-> OK, added |-> <<im>>,
          source |-> [source EXCEPT !.current_frame_num = @ + 1]]
    ELSE fill_loop(b, source, 0, <<>>)

\* ImageBuffer.fill: the result carries the buffer and the source afterwards
fill(b, source) ==
    IF is_full(b)
    THEN [buf |-> b, err |-> "AssertionError", added |-> <<>>,
          source |-> source]
    ELSE fill_loop(b, source, 0, <<>>)

\* the for loop of ImageBuffer.as_image_stack_BW (all frames have one size,
\* so no frame is resized)
RECURSIVE stack_loop(_, _, _)
stack_loop(b, i, stack) ==
    IF i >= Len(b.data) THEN [err |-> OK, stack |-> stack]
    ELSE IF b.data[i + 1] = None
    THEN [err |-> "AttributeError", stack |-> <<>>]
    ELSE IF i >= get_count(b) THEN [err |-> "IndexError", stack |-> <<>>]
    ELSE stack_loop(b, i + 1, Append(stack, as_grayscale(b.data[i + 1])))

\* ImageBuffer.as_image_stack_BW(size): size is None or a given (w, h)
as_image_stack_BW(b, size) ==
    IF size = None /\ getitem(b, 0) = None
    THEN [err |-> "AttributeError", stack |-> <<>>]
    ELSE stack_loop(b, 0, <<>>)

\* ------------------------------------------------------ background models
BG_SUBTRACT_STATIC == "BG_SUBTRACT_STATIC"
BG_SUBTRACT_FRAME_DIFF == "BG_SUBTRACT_FD"
BG_SUBTRACT_MEDIAN == "BG_SUBTRACT_MM"
BG_SUBTRACT_APPROX_MEDIAN == "BG_SUBTRACT_AM"
\* the method whose constant the source leaves commented out
BG_SUBTRACT_MCFD == "BG_SUBTRACT_MCFD"

\* MotionDetector.__init__ defaults
thresh == 80
min_area == 400

\* no background model: MotionDetector._bgSubtract = None
NoModel == [kind |-> "None", id |-> 0, threshold |-> 0, bg_array |-> 0,
            medians |-> 0, imageStack |-> <<>>]

\* uint8 - uint8 of two numpy arrays: the result is uint8
Sub8(a, b) == (a - b + 256) % 256

\* np.absolute
absolute(x) == IF x < 0 THEN -x ELSE x

Min(a, b) == IF a < b THEN a ELSE b

\* the k-th smallest value of a non-empty sequence
KthSmallest(stack, k) ==
    LET vals == {stack[i] : i \in 1..Len(stack)}
        ok == {v \in vals :
                 Cardinality({i \in 1..Len(stack) : stack[i] <= v}) >= k}
    IN CHOOSE v \in ok : \A w \in ok : v <= w

\* np.median(stack, axis=0), in half units: an even number of 8-bit values
\* has the mean of the two middle ones as its median, which may end in .5
median(stack) ==
    LET n == Len(stack) IN
    IF n % 2 = 1 THEN 2 * KthSmallest(stack, (n + 1) \div 2)
    ELSE KthSmallest(stack, n \div 2) + KthSmallest(stack, n \div 2 + 1)

\* MedianModel._get_median_vals (half units)
get_median_vals(b) ==
    LET imageStack == as_image_stack_BW(b, None) IN
    IF imageStack.err # OK
    THEN [err |-> imageStack.err, medians |-> 0, imageStack |-> <<>>]
    ELSE IF imageStack.stack = <<>>
    THEN [err |-> OK, medians |-> 0, imageStack |-> <<>>]
    ELSE [err |-> OK, medians |-> median(imageStack.stack),
          imageStack |-> imageStack.stack]

\* a faulty variant of StaticModel: the reference image is not checked when
\* the model is constructed
StaticModel_unchecked(b, bg_image, id) ==
    [err |-> OK,
     model |-> [NoModel EXCEPT !.kind = BG_SUBTRACT_STATIC, !.id = id,
                    !.threshold = thresh,
                    !.bg_array = IF bg_image = None THEN None
                                 ELSE as_grayscale(bg_image)]]

\* StaticModel.__init__
StaticModel(b, bg_image, id) ==
    IF bg_image = None THEN [err |-> "ValueError", model |-> NoModel]
    ELSE [err |-> OK,
          model |-> [NoModel EXCEPT !.kind = BG_SUBTRACT_STATIC, !.id = id,
                         !.threshold = thresh,
                         !.bg_array = as_grayscale(bg_image)]]

\* FrameDifferenceModel(image_buffer, **kwargs); a bg_image keyword is one
\* its constructor does not take
FrameDifferenceModel(b, bg_image, id) ==
    IF bg_image # None THEN [err |-> "TypeError", model |-> NoModel]
    ELSE [err |-> OK,
          model |-> [NoModel EXCEPT !.kind = BG_SUBTRACT_FRAME_DIFF,
                         !.id = id, !.threshold = thresh]]

\* MedianModel(image_buffer, **kwargs)
MedianModel(b, bg_image, id) ==
    IF bg_image # None THEN [err |-> "TypeError", model |-> NoModel]
    ELSE [err |-> OK,
          model |-> [NoModel EXCEPT !.kind = BG_SUBTRACT_MEDIAN, !.id = id,
                         !.threshold = thresh]]

\* a faulty variant of ApproximateMedianModel: the medians are computed
\* without asking whether the buffer is full
ApproximateMedianModel_unchecked(b, bg_image, id) ==
    IF bg_image # None THEN [err |-> "TypeError", model |-> NoModel]
    ELSE LET m == get_median_vals(b) IN
         IF m.err # OK THEN [err |-> m.err, model |-> NoModel]
         ELSE [err |-> OK,
               model |-> [NoModel EXCEPT !.kind = BG_SUBTRACT_APPROX_MEDIAN,
                              !.id = id, !.threshold = thresh,
                              !.medians = m.medians,
                              !.imageStack = m.imageStack]]

\* ApproximateMedianModel.__init__
ApproximateMedianModel(b, bg_image, id) ==
    IF bg_image # None THEN [err |-> "TypeError", model |-> NoModel]
    ELSE IF ~is_full(b) THEN [err |-> "ValueError", model |-> NoModel]
    ELSE LET m == get_median_vals(b) IN
         IF m.err # OK THEN [err |-> m.err, model |-> NoModel]
         ELSE [err |-> OK,
               model |-> [NoModel EXCEPT !.kind = BG_SUBTRACT_APPROX_MEDIAN,
                              !.id = id, !.threshold = thresh,
                              !.medians = m.medians,
                              !.imageStack = m.imageStack]]

\* one pixel of ApproximateMedianModel._update_median (half units):
\* medians + up - down
median_step(medians, cur_mat) ==
    LET up == IF cur_mat > medians THEN 2 ELSE 0
        down == IF cur_mat < medians THEN 2 ELSE 0
    IN medians + up - down

\* ApproximateMedianModel._update_median (half units)
update_median(model, b) ==
    LET cur_mat == 2 * as_grayscale(last(b))
    IN [model EXCEPT !.medians = median_step(model.medians, cur_mat)]

\* StaticModel._compute_bg_diff of one pixel of two uint8 arrays
static_diff(cur_img_array, bg_array) ==
    absolute(Sub8(cur_img_array, bg_array))

\* FrameDifferenceModel._compute_bg_diff of one pixel of three uint8 arrays
frame_diff(prev_img, cur_img, next_img) ==
    LET delta1 == absolute(Sub8(cur_img, prev_img))
        delta2 == absolute(Sub8(next_img, cur_img))
    IN Min(delta1, delta2)

\* a faulty variant of compute_bg_diff: the MedianModel keeps the medians
\* it computed in the attribute the ApproximateMedianModel uses
compute_bg_diff_keeps_medians(model, b) ==
    IF last(b) = None
    THEN [err |-> "AttributeError", diff |-> 0, model |-> model]
    ELSE IF model.kind = BG_SUBTRACT_STATIC
    THEN LET cur_img_array == as_grayscale(last(b)) IN
         [err |-> OK, model |-> model,
          diff |-> 2 * static_diff(cur_img_array, model.bg_array)]
    ELSE IF model.kind = BG_SUBTRACT_FRAME_DIFF
    THEN IF first(b) = None \/ middle(b) = None
         THEN [err |-> "AttributeError", diff |-> 0, model |-> model]
         ELSE LET prev_img == as_grayscale(first(b))
                  cur_img == as_grayscale(middle(b))
                  next_img == as_grayscale(last(b))
              IN [err |-> OK, model |-> model,
                  diff |-> 2 * frame_diff(prev_img, cur_img, next_img)]
    ELSE IF model.kind = BG_SUBTRACT_MEDIAN
    THEN LET img_gray == 2 * as_grayscale(last(b))
             img_BG == get_median_vals(b)
         IN IF img_BG.err # OK
            THEN [err |-> img_BG.err, diff |-> 0, model |-> model]
            ELSE [err |-> OK,
                  model |-> [model EXCEPT !.medians = img_BG.medians,
                                 !.imageStack = img_BG.imageStack],
                  diff |-> img_gray - img_BG.medians]
    ELSE LET m2 == update_median(model, b)
             img_gray == 2 * as_grayscale(last(b))
         IN [err |-> OK, model |-> m2, diff |-> img_gray - m2.medians]

\* _compute_bg_diff of the four models: the difference (half units) and
\* the model afterwards
compute_bg_diff(model, b) ==
    IF last(b) = None
    THEN [err |-> "AttributeError", diff |-> 0, model |-> model]
    ELSE IF model.kind = BG_SUBTRACT_STATIC
    THEN LET cur_img_array == as_grayscale(last(b)) IN
         [err |-> OK, model |-> model,
          diff |-> 2 * static_diff(cur_img_array, model.bg_array)]
    ELSE IF model.kind = BG_SUBTRACT_FRAME_DIFF
    THEN IF first(b) = None \/ middle(b) = None
         THEN [err |-> "AttributeError", diff |-> 0, model |-> model]
         ELSE LET prev_img == as_grayscale(first(b))
                  cur_img == as_grayscale(middle(b))
                  next_img == as_grayscale(last(b))
              IN [err |-> OK, model |-> model,
                  diff |-> 2 * frame_diff(prev_img, cur_img, next_img)]
    ELSE IF model.kind = BG_SUBTRACT_MEDIAN
    THEN LET img_gray == 2 * as_grayscale(last(b))
             img_BG == get_median_vals(b)
         IN IF img_BG.err # OK
            THEN [err |-> img_BG.err, diff |-> 0, model |-> model]
            ELSE [err |-> OK,
                  model |-> [model EXCEPT !.imageStack = img_BG.imageStack],
                  diff |-> img_gray - img_BG.medians]
    ELSE LET m2 == update_median(model, b)
             img_gray == 2 * as_grayscale(last(b))
         IN [err |-> OK, model |-> m2, diff |-> img_gray - m2.medians]

\* the largest 8-bit pixel value
MaxPixel == 255

\* a faulty variant of hard_mask: the sign of the difference is kept
hard_mask_signed(diff, threshold) ==
    IF diff > 2 * threshold THEN 255 ELSE 0

\* foreground_mask, hard threshold, of one pixel of the difference image
\* (in half units): (np.absolute(diff) > threshold) * 255
hard_mask(diff, threshold) ==
    IF absolute(diff) > 2 * threshold THEN 255 ELSE 0

\* the differences and thresholds of the table below
SoftSamples == <<0, 1, 2, 10, 20, 40, 80, 160, 255>>
SoftThresholds == {20, 80}

\* (1 - math.e**(-(1.0*d)/T)) * 255 in float64, truncated towards zero, for
\* d and for -d, d in SoftSamples
SoftScaled(T) ==
    IF T = 20
    THEN [pos |-> <<0, 12, 24, 100, 161, 220, 250, 254, 254>>,
          neg |-> <<0, -13, -26, -165, -438, -1629, -13667, -759889,
                    -87860478>>]
    ELSE [pos |-> <<0, 3, 6, 29, 56, 100, 161, 220, 244>>,
          neg |-> <<0, -3, -6, -33, -72, -165, -438, -1629, -5923>>]

\* astype('uint8') of a float that truncates to x: a negative value is
\* outside the range of the target type and the outcome is the build's,
\* the low byte of the integer or 0
Builds == {"wrap", "saturate"}
astype_uint8(x, build) ==
    IF x >= 0 THEN x % 256
    ELSE IF build = "wrap" THEN x % 256 ELSE 0

\* foreground_mask, soft threshold, of one pixel of the difference image
\* (in half units)
soft_mask(diff, threshold, build) ==
    LET k == CHOOSE i \in 1..Len(SoftSamples) :
                 2 * SoftSamples[i] = absolute(diff)
        t == SoftScaled(threshold)
    IN astype_uint8(IF diff >= 0 THEN t.pos[k] ELSE t.neg[k], build)

\* AbstractBGModel.foreground_mask, hard threshold (MotionDetector passes
\* soft_thresh=False)
foreground_mask(model, b) ==
    LET d == compute_bg_diff(model, b) IN
    IF d.err # OK THEN [err |-> d.err, mask |-> 0, model |-> d.model]
    ELSE [err |-> OK, model |-> d.model,
          mask |-> hard_mask(d.diff, model.threshold)]

\* --------------------------------------------------------- MotionDetector
\* a faulty variant of init_bg_subtract: a method that is not known falls
\* back to frame differencing
init_bg_subtract_default(method, b, bg_image, id) ==
    IF method = BG_SUBTRACT_STATIC THEN StaticModel(b, bg_image, id)
    ELSE IF method = BG_SUBTRACT_MEDIAN THEN MedianModel(b, bg_image, id)
    ELSE IF method = BG_SUBTRACT_APPROX_MEDIAN
    THEN ApproximateMedianModel(b, bg_image, id)
    ELSE FrameDifferenceModel(b, bg_image, id)

\* MotionDetector._init_bg_subtract; kwargs holds the bg_image keyword
init_bg_subtract(method, b, bg_image, id) ==
    IF method = BG_SUBTRACT_FRAME_DIFF THEN FrameDifferenceModel(b, bg_image, id)
    ELSE IF method = BG_SUBTRACT_STATIC THEN StaticModel(b, bg_image, id)
    ELSE IF method = BG_SUBTRACT_MEDIAN THEN MedianModel(b, bg_image, id)
    ELSE IF method = BG_SUBTRACT_APPROX_MEDIAN
    THEN ApproximateMedianModel(b, bg_image, id)
    ELSE [err |-> "ValueError", model |-> NoModel]

\* the mutant of still_filling: active one frame early
still_filling_early(b) == b.count < b.max - 1

\* detect: if not self._image_buffer.is_full(): return -1
still_filling(b) == ~is_full(b)

\* the mutant of needs_model: the model is rebuilt on every call
needs_model_always(bgSubtract) == TRUE

\* detect: if self._bgSubtract is None
needs_model(bgSubtract) == bgSubtract = NoModel

\* the mutant of select_key_frame: the middle frame for every method
select_key_frame_middle(method, b) == middle(b)

\* detect: the annotation image is the middle frame for frame differencing
\* and the last frame otherwise
select_key_frame(method, b) ==
    IF method = BG_SUBTRACT_FRAME_DIFF THEN middle(b) ELSE last(b)

\* ------------------------------------------------- detections of a mask
MD_BOUNDING_RECTS == "BOUNDING_RECTS"
MD_STANDARDIZED_RECTS == "STANDARDIZED_RECTS"

\* cv2.contourArea; cv2.moments(contour)["m00"] is the same number
contourArea(contour) == contour.area

\* a rect_filter is None or a function of the caller's; two samples: one
\* keeps the first rectangle only, one returns every rectangle twice
FILTER_FIRST == 1
FILTER_TWICE == 2
apply_filter(rect_filter, rects) ==
    IF rect_filter = None THEN rects
    ELSE IF rect_filter = FILTER_FIRST
    THEN (IF rects = <<>> THEN rects ELSE <<Head(rects)>>)
    ELSE rects \o rects

\* a detection names the contour it was derived from (1-based position)
Derived(kind, cs) == [i \in 1..Len(cs) |-> [kind |-> kind, contour |-> i]]

\* a faulty variant of passes_min_area: a contour of exactly min_area passes
passes_min_area_inclusive(contour, minArea) == contourArea(contour) >= minArea

\* the filter of the rectangle and polygon exports
passes_min_area(contour, minArea) == contourArea(contour) > minArea

\* MotionDetector.bounding_rects
bounding_rects(cs, minArea, rect_filter) ==
    LET rects == SelectSeq(Derived("Rect", cs),
                     LAMBDA r : passes_min_area(cs[r.contour], minArea))
    IN [err |-> OK, rects |-> apply_filter(rect_filter, rects)]

\* MotionDetector.standardized_rects: the centre and the size divide by m00
standardized_rects(cs, minArea, rect_filter) ==
    LET rects == SelectSeq(Derived("CenteredRect", cs),
                     LAMBDA r : passes_min_area(cs[r.contour], minArea))
    IN IF \E i \in 1..Len(rects) : contourArea(cs[rects[i].contour]) = 0
       THEN [err |-> "ZeroDivisionError", rects |-> <<>>]
       ELSE [err |-> OK, rects |-> apply_filter(rect_filter, rects)]

\* MotionDetector.get_rects
get_rects(cs, minArea, rect_type, rect_filter) ==
    IF rect_type = MD_BOUNDING_RECTS
    THEN bounding_rects(cs, minArea, rect_filter)
    ELSE IF rect_type = MD_STANDARDIZED_RECTS
    THEN standardized_rects(cs, minArea, rect_filter)
    ELSE [err |-> "ValueError", rects |-> <<>>]

\* MotionDetector.polygons(return_all)
polygons(cs, minArea, return_all) ==
    SelectSeq(Derived("Polygon", cs),
        LAMBDA r : return_all \/ passes_min_area(cs[r.contour], minArea))

\* MotionDetector.convex_hulls: hull i is the hull of contour i, given by
\* its number of points; _convexHulls exists once detect has computed it
md_convex_hulls(hulls) ==
    IF ~hulls.set THEN [err |-> "AttributeError", polys |-> <<>>]
    ELSE [err |-> OK,
          polys |-> SelectSeq(Derived("Hull", hulls.hulls),
                        LAMBDA r : hulls.hulls[r.contour] > 3)]

\* MotionDetector._compute_convex_hulls
compute_convex_hulls(cs) ==
    [set |-> TRUE, hulls |-> [i \in 1..Len(cs) |-> cs[i].hull]]

\* a faulty variant of detect_return: only the contours above the default
\* min_area are counted
detect_return_filtered(cs) ==
    Len(SelectSeq(cs, LAMBDA c : contourArea(c) > min_area))

\* detect: return len(self._contours)
detect_return(cs) == Len(cs)

\* ------------------------------------------------------------------ state
MaxDetect == 4     \* cap on detect calls of one detector
MaxContours == 2   \* most contours findContours reports
MaxTouch == 1      \* cap on the caller's clears of a buffer it handed over

VARIABLES
    image_buffer,   \* the ImageBuffer: [data, count, max]
    hist,           \* frames added since creation or the last clear, oldest first
    ret,            \* the last call: its name, inputs and outcome
    det,            \* "none": no detector yet; "own": a detector with its own
                    \* buffer; "shared": a detector on the caller's buffer
    method,         \* MotionDetector._method
    bg_image,       \* the bg_image keyword in MotionDetector._kwargs, or None
    bgSubtract,     \* MotionDetector._bgSubtract
    fgMask,         \* MotionDetector._fgMask: NoImage or the mask pixel
    contours,       \* MotionDetector._contours
    convexHulls,    \* MotionDetector._convexHulls: [set, hulls]
    annotateImg,    \* MotionDetector._annotateImg
    dhist,          \* frames passed to detect, oldest first
    nModels,        \* number of background models constructed so far
    touched,        \* number of times the caller cleared the shared buffer
                    \* after handing it over
    start_count,    \* the buffer's fill-count when the detector was constructed
    everCount,      \* some detect call returned a count
    minArea,        \* MotionDetector._minArea
    rect_type,      \* MotionDetector._rect_type
    rect_filter,    \* MotionDetector._filter
    args,           \* the inputs of the function under study, if any
    nMasks,         \* foreground_mask calls on the caller's current model
    layers,         \* per frame object: shapes were drawn on its annotation
                    \* layer
    initErr,        \* the error of a detect call that could not build the
                    \* background model, OK if there was none
    vids            \* the caller's videos over one frame sequence

bufvars == <<image_buffer, hist>>
cfgvars == <<det, method, bg_image, start_count, minArea, rect_type,
             rect_filter>>
mdvars == <<bgSubtract, fgMask, contours, convexHulls, annotateImg>>
ghostvars == <<dhist, nModels, everCount>>
vars == <<image_buffer, hist, ret, det, method, bg_image, bgSubtract, fgMask,
          contours, convexHulls, annotateImg, dhist, nModels, touched,
          start_count, everCount, minArea, rect_type, rect_filter, args,
          nMasks, layers, initErr, vids>>
auxvars == <<layers, initErr, vids>>

NoImage == -1
Capacities == 1..MaxN
SourceSeqs == UNION {[1..n -> Frames] : n \in 0..MaxSrc}
NoSource == ListSource(<<>>)
Methods == {BG_SUBTRACT_STATIC, BG_SUBTRACT_FRAME_DIFF, BG_SUBTRACT_MEDIAN,
            BG_SUBTRACT_APPROX_MEDIAN, BG_SUBTRACT_MCFD}

\* what cv2.findContours and cv2.convexHull report of the i-th contour of a
\* mask: its area and the number of points of its convex hull
ContourShape(i) ==
    CASE i % 3 = 1 -> [area |-> min_area + 1, hull |-> 4]
      [] i % 3 = 2 -> [area |-> min_area, hull |-> 4]
      [] OTHER -> [area |-> min_area + 1, hull |-> 3]
ContourLists == {[i \in 1..n |-> ContourShape(i)] : n \in 0..MaxContours}

NoArgs == [op |-> "none"]
NoLayers == [f \in Frames |-> FALSE]
NoVideos == [op |-> "none"]

Ret(op, err) ==
    [op |-> op, err |-> err, val |-> 0, pulled |-> 0, pre_count |-> 0,
     source |-> NoSource, source_after |-> NoSource, stack |-> <<>>]

Init ==
    /\ \E N \in Capacities : image_buffer = NewBuffer(N)
    /\ hist = <<>>
    /\ ret = Ret("init", OK)
    /\ det = "none"
    /\ method = BG_SUBTRACT_APPROX_MEDIAN
    /\ bg_image = None
    /\ bgSubtract = NoModel
    /\ fgMask = NoImage
    /\ contours = <<>>
    /\ convexHulls = [set |-> FALSE, hulls |-> <<>>]
    /\ annotateImg = None
    /\ dhist = <<>>
    /\ nModels = 0
    /\ touched = 0
    /\ start_count = 0
    /\ everCount = FALSE
    /\ minArea = min_area
    /\ rect_type = MD_BOUNDING_RECTS
    /\ rect_filter = None
    /\ args = NoArgs
    /\ nMasks = 0
    /\ layers = NoLayers
    /\ initErr = OK
    /\ vids = NoVideos

\* cap on the adds since creation or the last clear
MaxAdds == len(image_buffer) + ExtraAdds

\* the caller holds the buffer: there is no detector, or it shares the buffer
CallerHoldsBuffer == det \in {"none", "shared"}

\* caller: ib.add(image), before a detector takes the buffer over
Add(image) ==
    /\ det = "none"
    /\ Len(hist) < MaxAdds
    /\ image_buffer' = add(image_buffer, image)
    /\ hist' = Append(hist, image)
    /\ ret' = Ret("add", OK)
    /\ UNCHANGED <<cfgvars, mdvars, ghostvars, touched, args, nMasks,
                   auxvars>>

\* caller: ib.clear(), also on a buffer a detector shares
Clear ==
    /\ CallerHoldsBuffer
    /\ touched < MaxTouch
    /\ image_buffer' = clear(image_buffer)
    /\ hist' = <<>>
    /\ ret' = Ret("clear", OK)
    /\ touched' = IF det = "shared" THEN touched + 1 ELSE touched
    /\ UNCHANGED <<cfgvars, mdvars, ghostvars, args, nMasks,
                   auxvars>>

\* caller: ib.fill(source), before a detector takes the buffer over
Fill(source) ==
    LET r == fill(image_buffer, source) IN
    /\ det = "none"
    /\ Len(hist) + (len(image_buffer) - get_count(image_buffer)) <= MaxAdds
    /\ image_buffer' = r.buf
    /\ hist' = hist \o r.added
    /\ ret' = [Ret("fill", r.err) EXCEPT !.pulled = Len(r.added),
                   !.pre_count = get_count(image_buffer), !.source = source,
                   !.source_after = r.source]
    /\ UNCHANGED <<cfgvars, mdvars, ghostvars, touched, args, nMasks,
                   auxvars>>

FillList == \E items \in SourceSeqs : Fill(ListSource(items))

\* the stack of a video of n frames: consecutive frames differ
VideoStack(n) == [i \in 1..n |-> ((i - 1) % NumFrames) + 1]

FillVideo ==
    \E n \in 0..MaxSrc : \E pos \in 0..n :
        Fill(VideoFromImageStack(VideoStack(n), pos))

\* caller: ib.as_image_stack_BW()
AsImageStackBW ==
    LET r == as_image_stack_BW(image_buffer, None) IN
    /\ det = "none"
    /\ ret' = [Ret("as_image_stack_BW", r.err) EXCEPT !.stack = r.stack]
    /\ UNCHANGED <<bufvars, cfgvars, mdvars, ghostvars, touched, args, nMasks,
                   auxvars>>

\* MotionDetector.__init__: image_buffer=None builds an ImageBuffer of
\* buff_size frames, otherwise the caller's buffer is kept by reference
MotionDetector(own, buff_size, m, bg, rt) ==
    /\ det = "none"
    /\ det' = IF own THEN "own" ELSE "shared"
    /\ image_buffer' = IF own THEN NewBuffer(buff_size) ELSE image_buffer
    /\ hist' = IF own THEN <<>> ELSE hist
    /\ start_count' = get_count(image_buffer')
    /\ method' = m
    /\ bg_image' = bg
    /\ bgSubtract' = NoModel
    /\ fgMask' = NoImage
    /\ contours' = <<>>
    /\ annotateImg' = None
    /\ minArea' = min_area
    /\ rect_type' = rt
    /\ rect_filter' = None
    /\ ret' = Ret("MotionDetector", OK)
    /\ UNCHANGED <<convexHulls, ghostvars, touched, args, nMasks,
                   auxvars>>

NewDetector ==
    \E own \in BOOLEAN, buff_size \in Capacities, m \in Methods,
       bg \in {None, 1} :
        /\ ~own => buff_size = len(image_buffer)
        /\ MotionDetector(own, buff_size, m, bg, MD_BOUNDING_RECTS)

\* MotionDetector.key_frame
key_frame == annotateImg

\* MotionDetector.foreground_mask (the accessor)
md_foreground_mask == fgMask

\* MotionDetector.detect(img, convex_hulls)
detect(img, convex_hulls) ==
    LET b == add(image_buffer, img) IN
    /\ det # "none"
    /\ Len(hist) < MaxAdds
    /\ Len(dhist) < MaxDetect
    /\ image_buffer' = b
    /\ hist' = Append(hist, img)
    /\ dhist' = Append(dhist, img)
    /\ UNCHANGED <<cfgvars, touched, args, nMasks, layers, vids>>
    /\ IF still_filling(b)
       THEN /\ ret' = [Ret("detect", OK) EXCEPT !.val = -1]
            /\ UNCHANGED <<mdvars, nModels, everCount, initErr>>
       ELSE LET init == IF needs_model(bgSubtract)
                        THEN init_bg_subtract(method, b, bg_image, nModels + 1)
                        ELSE [err |-> OK, model |-> bgSubtract]
            IN
            IF init.err # OK
            THEN /\ ret' = Ret("detect", init.err)
                 /\ initErr' = init.err
                 /\ UNCHANGED <<mdvars, nModels, everCount>>
            ELSE LET fm == foreground_mask(init.model, b) IN
                 /\ UNCHANGED initErr
                 /\ nModels' = IF needs_model(bgSubtract)
                                THEN nModels + 1 ELSE nModels
                 /\ bgSubtract' = fm.model
                 /\ annotateImg' = select_key_frame(method, b)
                 /\ IF fm.err # OK
                    THEN /\ ret' = Ret("detect", fm.err)
                         /\ UNCHANGED <<fgMask, contours, convexHulls,
                                        everCount>>
                    ELSE \E cs \in ContourLists :
                         \* blur, dilate and erode leave a uniform mask as
                         \* it is; findContours reports no contour of an
                         \* all-zero mask and at least one otherwise
                         /\ (fm.mask = 0) = (cs = <<>>)
                         /\ contours' = cs
                         /\ convexHulls' = compute_convex_hulls(cs)
                         \* fillConvexPoly draws into the array fgMask wraps
                         /\ fgMask' = IF convex_hulls /\ cs # <<>>
                                       THEN 255 ELSE fm.mask
                         /\ ret' = [Ret("detect", OK) EXCEPT
                                       !.val = detect_return(cs)]
                         /\ everCount' = TRUE

Detect == \E img \in Frames, convex_hulls \in BOOLEAN : detect(img, convex_hulls)

\* the buffer and its caller
Next ==
    \/ \E image \in Frames : Add(image)
    \/ Clear
    \/ FillList
    \/ FillVideo
    \/ AsImageStackBW

Spec == Init /\ [][Next]_vars

\* a detector, its caller and the buffer they may share
NextDetector ==
    \/ \E image \in Frames : Add(image)
    \/ Clear
    \/ NewDetector
    \/ Detect

SpecDetector == Init /\ [][NextDetector]_vars

\* --------------------------------- background models used on their own
MaxModels == 2     \* cap on the models the caller constructs
MaxMasks == 2      \* cap on the foreground_mask calls on one model
ModelKinds == {BG_SUBTRACT_STATIC, BG_SUBTRACT_FRAME_DIFF, BG_SUBTRACT_MEDIAN,
               BG_SUBTRACT_APPROX_MEDIAN}

\* caller: m = StaticModel(ib, bg_image=bg), FrameDifferenceModel(ib),
\* MedianModel(ib) or ApproximateMedianModel(ib); a constructor that raises
\* leaves the caller with the model it had
NewModel(kind, bg) ==
    LET id == nModels + 1
        r == IF kind = BG_SUBTRACT_STATIC
             THEN StaticModel(image_buffer, bg, id)
             ELSE IF kind = BG_SUBTRACT_FRAME_DIFF
             THEN FrameDifferenceModel(image_buffer, bg, id)
             ELSE IF kind = BG_SUBTRACT_MEDIAN
             THEN MedianModel(image_buffer, bg, id)
             ELSE ApproximateMedianModel(image_buffer, bg, id)
    IN
    /\ det = "none"
    /\ nModels < MaxModels
    /\ kind # BG_SUBTRACT_STATIC => bg = None
    /\ ret' = [Ret(kind, r.err) EXCEPT !.val = bg,
                  !.pre_count = get_count(image_buffer)]
    /\ bgSubtract' = IF r.err = OK THEN r.model ELSE bgSubtract
    /\ nModels' = IF r.err = OK THEN id ELSE nModels
    /\ nMasks' = IF r.err = OK THEN 0 ELSE nMasks
    /\ UNCHANGED <<bufvars, cfgvars, fgMask, contours, convexHulls,
                   annotateImg, dhist, everCount, touched, args, auxvars>>

\* caller: m.foreground_mask()
ModelMask ==
    LET fm == foreground_mask(bgSubtract, image_buffer) IN
    /\ det = "none"
    /\ bgSubtract # NoModel
    /\ nMasks < MaxMasks
    /\ nMasks' = nMasks + 1
    /\ ret' = [Ret("foreground_mask", fm.err) EXCEPT !.val = fm.mask]
    /\ bgSubtract' = fm.model
    /\ UNCHANGED <<bufvars, cfgvars, fgMask, contours, convexHulls,
                   annotateImg, ghostvars, touched, args, auxvars>>

\* a buffer, its caller and the models the caller constructs on it
NextModels ==
    \/ \E image \in Frames : Add(image)
    \/ \E kind \in ModelKinds, bg \in {None, 1} : NewModel(kind, bg)
    \/ ModelMask

SpecModels == Init /\ [][NextModels]_vars

\* ------------------------------------------- the exports of a detector
\* the min_area and rect_type settings a detector may have been given
MinAreas == {0, min_area - 1, min_area, min_area + 1}
RectTypes == {MD_BOUNDING_RECTS, MD_STANDARDIZED_RECTS}

\* the contours a mask can hold after blur, dilate and erode: a foreground
\* region is at least 4 pixels wide, so every contour encloses an area
ContourAreas == {min_area - 384, min_area, min_area + 1}
HullSizes == {3, 4}
ContourShapes == [area : ContourAreas, hull : HullSizes]
AnyContourLists == UNION {[1..n -> ContourShapes] : n \in 0..MaxContours}

\* a detector as constructed, or after a detect call that found cs
InitRects ==
    /\ image_buffer = NewBuffer(1)
    /\ hist = <<>>
    /\ ret = Ret("init", OK)
    /\ det = "own"
    /\ method = BG_SUBTRACT_APPROX_MEDIAN
    /\ bg_image = None
    /\ bgSubtract = NoModel
    /\ fgMask = NoImage
    /\ annotateImg = None
    /\ dhist = <<>>
    /\ nModels = 0
    /\ touched = 0
    /\ start_count = 0
    /\ everCount = FALSE
    /\ args = NoArgs
    /\ nMasks = 0
    /\ layers = NoLayers
    /\ initErr = OK
    /\ vids = NoVideos
    /\ minArea \in MinAreas
    /\ rect_type \in RectTypes \cup {"OTHER"}
    /\ rect_filter \in {None, FILTER_FIRST, FILTER_TWICE}
    /\ \/ contours = <<>> /\ convexHulls = [set |-> FALSE, hulls |-> <<>>]
       \/ \E cs \in AnyContourLists :
             contours = cs /\ convexHulls = compute_convex_hulls(cs)

Export(op, err, val) ==
    /\ ret' = [Ret(op, err) EXCEPT !.val = val]
    /\ UNCHANGED <<bufvars, cfgvars, mdvars, ghostvars, touched, args, nMasks,
                   auxvars>>

GetRects ==
    LET r == get_rects(contours, minArea, rect_type, rect_filter)
    IN Export("get_rects", r.err, r.rects)

BoundingRects ==
    LET r == bounding_rects(contours, minArea, rect_filter)
    IN Export("bounding_rects", r.err, r.rects)

StandardizedRects ==
    LET r == standardized_rects(contours, minArea, rect_filter)
    IN Export("standardized_rects", r.err, r.rects)

Polygons ==
    \E return_all \in BOOLEAN :
        Export(IF return_all THEN "polygons_all" ELSE "polygons", OK,
               polygons(contours, minArea, return_all))

ConvexHulls ==
    LET r == md_convex_hulls(convexHulls)
    IN Export("convex_hulls", r.err, r.polys)

NextRects ==
    \/ GetRects
    \/ BoundingRects
    \/ StandardizedRects
    \/ Polygons
    \/ ConvexHulls

SpecRects == InitRects /\ [][NextRects]_vars

\* ------------------------------- a detector on its own buffer, in use
\* MotionDetector(method=m, rect_type=rt, buff_size=n, bg_image=bg)
NewOwnDetector ==
    \E buff_size \in Capacities, m \in Methods, bg \in {None, 1},
       rt \in RectTypes \cup {"OTHER"} :
        /\ bg # None => m = BG_SUBTRACT_STATIC
        /\ MotionDetector(TRUE, buff_size, m, bg, rt)

\* the colours annotate_frame draws with by default, by name
RGB_RED == 1
RGB_BLACK == 2
RGB_CYAN == 3

\* MotionDetector.annotate_frame: the frame returned, the frame drawn on
\* and whether a shape was drawn before the call returned or raised
annotate_frame(kf, rect_color, contour_color, convex_hull_color) ==
    IF kf = None /\ annotateImg = None
    THEN [err |-> OK, val |-> None, target |-> None, drawn |-> FALSE]
    ELSE LET target == IF kf = None THEN annotateImg ELSE kf
             polys == IF contour_color # None
                      THEN polygons(contours, minArea, FALSE) ELSE <<>>
             rects == IF rect_color # None
                      THEN get_rects(contours, minArea, rect_type, rect_filter)
                      ELSE [err |-> OK, rects |-> <<>>]
             hulls == IF convex_hull_color # None
                      THEN md_convex_hulls(convexHulls)
                      ELSE [err |-> OK, polys |-> <<>>]
         IN IF rects.err # OK
            THEN [err |-> rects.err, val |-> None, target |-> target,
                  drawn |-> polys # <<>>]
            ELSE IF hulls.err # OK
            THEN [err |-> hulls.err, val |-> None, target |-> target,
                  drawn |-> polys # <<>> \/ rects.rects # <<>>]
            ELSE [err |-> OK, val |-> target, target |-> target,
                  drawn |-> polys # <<>> \/ rects.rects # <<>>
                               \/ hulls.polys # <<>>]

\* caller: md.annotate_frame(key_frame=kf, ...); kf is None or any frame
\* object, one of the buffer or not; the caller annotates until a shape
\* has been drawn
AnnotateFrame ==
    \E kf \in {None} \cup Frames, rect_color \in {None, RGB_RED},
       contour_color \in {None, RGB_BLACK},
       convex_hull_color \in {None, RGB_CYAN} :
        LET r == annotate_frame(kf, rect_color, contour_color,
                                convex_hull_color) IN
        /\ det # "none" /\ layers = NoLayers
        /\ ret' = [Ret("annotate_frame", r.err) EXCEPT !.val = r.val,
                      !.pulled = kf]
        /\ layers' = IF r.drawn THEN [layers EXCEPT ![r.target] = TRUE]
                      ELSE layers
        /\ UNCHANGED <<bufvars, cfgvars, mdvars, ghostvars, touched, args,
                       nMasks, initErr, vids>>

NextOwn ==
    \/ NewOwnDetector
    \/ Detect
    \/ AnnotateFrame

SpecOwn == Init /\ [][NextOwn]_vars

\* --------------------------------------------- thresholding a difference
\* the state of the pure-function studies: no buffer activity, no detector
Idle ==
    /\ image_buffer = NewBuffer(1)
    /\ hist = <<>>
    /\ ret = Ret("init", OK)
    /\ det = "none"
    /\ method = BG_SUBTRACT_APPROX_MEDIAN
    /\ bg_image = None
    /\ bgSubtract = NoModel
    /\ fgMask = NoImage
    /\ contours = <<>>
    /\ convexHulls = [set |-> FALSE, hulls |-> <<>>]
    /\ annotateImg = None
    /\ dhist = <<>>
    /\ nModels = 0
    /\ touched = 0
    /\ start_count = 0
    /\ everCount = FALSE
    /\ minArea = min_area
    /\ rect_type = MD_BOUNDING_RECTS
    /\ rect_filter = None
    /\ nMasks = 0
    /\ layers = NoLayers
    /\ initErr = OK
    /\ vids = NoVideos

\* the values of a pixel of a difference image, in half units: uint8 for
\* the static and frame-difference models, signed floats for the medians
Diffs == (-2 * MaxPixel)..(2 * MaxPixel)
Thresholds == {0, 1, thresh, MaxPixel}
SoftDiffs ==
    {2 * SoftSamples[i] : i \in 1..Len(SoftSamples)} \cup
    {-2 * SoftSamples[i] : i \in 1..Len(SoftSamples)}

\* a difference image of one pixel (hard threshold) or of two pixels
\* (soft threshold), and the model's threshold
InitMask ==
    /\ Idle
    /\ \/ \E d \in Diffs, T \in Thresholds :
             args = [op |-> "mask", diff |-> <<d>>, threshold |-> T,
                     soft |-> FALSE]
       \/ \E d \in SoftDiffs, e \in SoftDiffs, T \in SoftThresholds :
             args = [op |-> "mask", diff |-> <<d, e>>, threshold |-> T,
                     soft |-> TRUE]

\* AbstractBGModel.foreground_mask on the difference image args.diff
ForegroundMask ==
    /\ args.op = "mask"
    /\ \E build \in Builds :
         ret' = [Ret("foreground_mask", OK) EXCEPT !.stack =
                   [i \in 1..Len(args.diff) |->
                      IF args.soft
                      THEN soft_mask(args.diff[i], args.threshold, build)
                      ELSE hard_mask(args.diff[i], args.threshold)]]
    /\ UNCHANGED <<bufvars, cfgvars, mdvars, ghostvars, touched, args, nMasks,
                   auxvars>>

NextMask == ForegroundMask

SpecMask == InitMask /\ [][NextMask]_vars

\* ------------------------------------------------ differences of frames
Pixels == 0..MaxPixel
PixelSamples == {0, 10, 96, 250, MaxPixel}

\* one pixel of the current frame and the reference image (static model)
\* or of the first, middle and last frame (frame differencing)
InitDiff ==
    /\ Idle
    /\ \/ \E a \in Pixels, b \in Pixels :
             args = [op |-> "static", px |-> <<a, b>>, threshold |-> thresh]
       \/ \E f \in PixelSamples, m \in PixelSamples, l \in PixelSamples,
             T \in Thresholds :
             args = [op |-> "frames", px |-> <<f, m, l>>, threshold |-> T]

Diffed(op, diff) ==
    /\ ret' = [Ret(op, OK) EXCEPT !.val = diff,
                  !.stack = <<hard_mask(2 * diff, args.threshold)>>]
    /\ UNCHANGED <<bufvars, cfgvars, mdvars, ghostvars, touched, args, nMasks,
                   auxvars>>

\* StaticModel: _compute_bg_diff, then the hard threshold
StaticDiff ==
    /\ args.op = "static"
    /\ Diffed("static_diff", static_diff(args.px[1], args.px[2]))

\* FrameDifferenceModel: _compute_bg_diff, then the hard threshold
FrameDiff ==
    /\ args.op = "frames"
    /\ Diffed("frame_diff", frame_diff(args.px[1], args.px[2], args.px[3]))

NextDiff ==
    \/ StaticDiff
    \/ FrameDiff

SpecDiff == InitDiff /\ [][NextDiff]_vars

\* ------------------------------------------- the approximate median
\* the values of one pixel in the frames of a full buffer
MedianPixels == {10, 11, 12, 96}
PixelStacks == UNION {[1..n -> MedianPixels] : n \in Capacities}

\* an ApproximateMedianModel as constructed on a full buffer whose frames
\* hold args.stack at one pixel
InitMedian ==
    /\ Idle
    /\ \E stack \in PixelStacks :
         args = [op |-> "median", stack |-> stack, before |-> median(stack),
                 cur |-> stack[Len(stack)], medians |-> median(stack)]

\* a frame with pixel value cur is added to the buffer, and foreground_mask
\* runs _update_median
UpdateMedian ==
    /\ args.op = "median"
    /\ \E cur \in MedianPixels :
         args' = [args EXCEPT !.before = args.medians, !.cur = cur,
                     !.medians = median_step(args.medians, 2 * cur)]
    /\ ret' = Ret("update_median", OK)
    /\ UNCHANGED <<bufvars, cfgvars, mdvars, ghostvars, touched, nMasks,
                   auxvars>>

NextMedian == UpdateMedian

SpecMedian == InitMedian /\ [][NextMedian]_vars

\* ---- the first mask of a median and of an approximate median model ----

\* a full buffer whose frames hold args.stack at one pixel, and the
\* threshold both models are constructed with
InitFirstMask ==
    /\ Idle
    /\ \E stack \in PixelStacks, T \in Thresholds :
         args = [op |-> "first_mask", stack |-> stack, threshold |-> T,
                 called |-> FALSE, approx |-> 0, exact |-> 0]

\* bg_subtract_demo: a MedianModel and a fresh ApproximateMedianModel are
\* constructed on the buffer and foreground_mask() is called once on each
FirstMasks ==
    /\ args.op = "first_mask" /\ ~args.called
    /\ LET img_gray == 2 * args.stack[Len(args.stack)]
           medians == median(args.stack)
           updated == median_step(medians, img_gray)
       IN args' = [args EXCEPT
                      !.called = TRUE,
                      !.exact = hard_mask(img_gray - medians, args.threshold),
                      !.approx = hard_mask(img_gray - updated, args.threshold)]
    /\ ret' = Ret("foreground_mask", OK)
    /\ UNCHANGED <<bufvars, cfgvars, mdvars, ghostvars, touched, nMasks,
                   auxvars>>

NextFirstMask == FirstMasks

SpecFirstMask == InitFirstMask /\ [][NextFirstMask]_vars

\* ------------------------- an approximate median under a steady frame
ExtraCalls == 2    \* foreground_mask calls past the claimed convergence

Abs(x) == IF x < 0 THEN -x ELSE x

\* an ApproximateMedianModel as constructed on a full buffer whose frames
\* hold stack at one pixel; no frame is held steady yet
InitSteady ==
    /\ Idle
    /\ \E stack \in PixelStacks :
         args = [op |-> "steady", medians |-> median(stack), held |-> FALSE,
                 v |-> stack[Len(stack)], m |-> median(stack), calls |-> 0]

\* from now on the newest frame of the buffer holds v at the pixel
HoldFrame ==
    /\ args.op = "steady"
    /\ \E v \in MedianPixels :
         args' = [args EXCEPT !.held = TRUE, !.v = v, !.m = args.medians,
                     !.calls = 0]
    /\ ret' = Ret("add", OK)
    /\ UNCHANGED <<bufvars, cfgvars, mdvars, ghostvars, touched, nMasks,
                   auxvars>>

\* foreground_mask runs _update_median against the steady frame
SteadyMask ==
    /\ args.op = "steady" /\ args.held
    /\ 2 * args.calls < Abs(args.m - 2 * args.v) + 2 * ExtraCalls
    /\ args' = [args EXCEPT !.calls = args.calls + 1,
                   !.medians = median_step(args.medians, 2 * args.v)]
    /\ ret' = Ret("foreground_mask", OK)
    /\ UNCHANGED <<bufvars, cfgvars, mdvars, ghostvars, touched, nMasks,
                   auxvars>>

NextSteady == HoldFrame \/ SteadyMask

SpecSteady == InitSteady /\ [][NextSteady]_vars

\* ------------------------------------------------------------ videos
MaxFrames == 3     \* cap on the frames of the video's sequence

\* the frame at 0-based index i of the sequence (None is no frame)
FrameAt(i) == i + 1

\* VideoInterface.__init__ as Video calls it: a capture that has read
\* cap frames of the num_frames frames of the source
Video(num_frames, size) ==
    [current_frame_num |-> 0, current_frame |-> None, size |-> size,
     random_access |-> FALSE, num_frames |-> num_frames, cap |-> 0]

\* VideoFromFileList.__init__ and VideoFromImageStack.__init__
VideoFromFileList(num_frames, size) ==
    [current_frame_num |-> 0, current_frame |-> None, size |-> size,
     random_access |-> TRUE, num_frames |-> num_frames, cap |-> 0]

\* VideoInterface._get_resized: a resized frame is the frame of the same
\* index
get_resized(v) ==
    IF v.size = None THEN [err |-> OK, val |-> v.current_frame, vid |-> v]
    ELSE IF v.current_frame = None
    THEN [err |-> "AttributeError", val |-> None, vid |-> v]
    ELSE [err |-> OK, val |-> v.current_frame, vid |-> v]

\* a faulty variant of Video_reset: the capture is not opened again
Video_reset_keeps_cap(v) ==
    [v EXCEPT !.current_frame_num = 0, !.current_frame = None]

\* Video.reset
Video_reset(v) ==
    [v EXCEPT !.current_frame_num = 0, !.current_frame = None, !.cap = 0]

\* Video.__next__
Video_next(v) ==
    IF v.cap < v.num_frames
    THEN get_resized([v EXCEPT !.current_frame_num = v.current_frame_num + 1,
                               !.current_frame = FrameAt(v.cap),
                               !.cap = v.cap + 1])
    ELSE IF v.current_frame_num = 0
    THEN [err |-> "ValueError", val |-> None, vid |-> v]
    ELSE [err |-> "StopIteration", val |-> None, vid |-> v]

\* VideoFromFileList.__getitem__, VideoFromImageStack.__getitem__
Video_getitem(v, frame_num) ==
    IF frame_num < v.num_frames
    THEN [err |-> OK, val |-> FrameAt(frame_num)]
    ELSE [err |-> "IndexError", val |-> None]

\* VideoFromFileList.__next__, VideoFromImageStack.__next__
VideoFromFileList_next(v) ==
    IF v.current_frame_num >= v.num_frames
    THEN [err |-> "StopIteration", val |-> None, vid |-> v]
    ELSE get_resized([v EXCEPT
                         !.current_frame = FrameAt(v.current_frame_num),
                         !.current_frame_num = v.current_frame_num + 1])

\* next(self) of either kind of video
next(v) == IF v.random_access THEN VideoFromFileList_next(v) ELSE Video_next(v)

\* the loop of seek_to: while self.current_frame_num < frame_num
RECURSIVE seek_loop(_, _)
seek_loop(v, frame_num) ==
    IF v.current_frame_num < frame_num
    THEN LET r == next(v) IN
         IF r.err # OK THEN r ELSE seek_loop(r.vid, frame_num)
    ELSE [err |-> OK, val |-> None, vid |-> v]

\* VideoInterface.seek_to
seek_to(v, frame_num) ==
    IF v.random_access
    THEN LET v1 == [v EXCEPT !.current_frame_num = frame_num]
             frame == Video_getitem(v1, frame_num)
         IN IF frame.err # OK
            THEN [err |-> frame.err, val |-> None, vid |-> v1]
            ELSE get_resized([v1 EXCEPT !.current_frame = frame.val])
    ELSE LET v1 == IF v.current_frame_num > frame_num
                   THEN Video_reset(v) ELSE v
             r == seek_loop(v1, frame_num)
         IN IF r.err # OK THEN r ELSE get_resized(r.vid)

NoCall == [op |-> "none", frame_num |-> 0, before |-> 0,
           seq |-> [err |-> OK, val |-> None],
           ra |-> [err |-> OK, val |-> None]]
Sizes == {None, 1}

\* the caller opens a Video and a VideoFromFileList over the same sequence
\* of frames, with the same size
OpenVideos ==
    /\ \E num_frames \in 0..MaxFrames, size \in Sizes :
         vids' = [op |-> "video", seq |-> Video(num_frames, size),
                  ra |-> VideoFromFileList(num_frames, size),
                  sought |-> FALSE, call |-> NoCall, prev |-> NoCall]
    /\ ret' = Ret("Video", OK)
    /\ UNCHANGED <<bufvars, cfgvars, mdvars, ghostvars, touched, args, nMasks,
                   layers, initErr>>

\* the caller calls seek_to(frame_num) on both videos
SeekTo ==
    /\ vids.op = "video"
    /\ \E frame_num \in 0..(vids.seq.num_frames + 1) :
         LET s == seek_to(vids.seq, frame_num)
             r == seek_to(vids.ra, frame_num)
         IN vids' = [vids EXCEPT !.seq = s.vid, !.ra = r.vid,
                        !.sought = TRUE, !.prev = vids.call,
                        !.call = [op |-> "seek_to", frame_num |-> frame_num,
                                  before |-> vids.seq.current_frame_num,
                                  seq |-> [err |-> s.err, val |-> s.val],
                                  ra |-> [err |-> r.err, val |-> r.val]]]
    /\ ret' = Ret("seek_to", OK)
    /\ UNCHANGED <<bufvars, cfgvars, mdvars, ghostvars, touched, args, nMasks,
                   layers, initErr>>

\* the caller calls next() on both videos
VideoNext ==
    /\ vids.op = "video"
    /\ LET s == next(vids.seq)
           r == next(vids.ra)
       IN vids' = [vids EXCEPT !.seq = s.vid, !.ra = r.vid,
                      !.prev = vids.call,
                      !.call = [op |-> "next", frame_num |-> 0,
                                before |-> vids.seq.current_frame_num,
                                seq |-> [err |-> s.err, val |-> s.val],
                                ra |-> [err |-> r.err, val |-> r.val]]]
    /\ ret' = Ret("next", OK)
    /\ UNCHANGED <<bufvars, cfgvars, mdvars, ghostvars, touched, args, nMasks,
                   layers, initErr>>

InitVideo == Idle /\ args = NoArgs

NextVideo == OpenVideos \/ SeekTo \/ VideoNext

SpecVideo == InitVideo /\ [][NextVideo]_vars

\* ----------------------------------------------------------------- claims
\* the adds since creation or the last clear, and the buffer's geometry
K == Len(hist)
N == image_buffer.max
C == image_buffer.count
Full == image_buffer.count = image_buffer.max

\* C1: once at least N frames were added since creation or the last clear,
\* slot i (0-based) holds the (k-N+i+1)-th of them: first() is the oldest
\* retained frame, last() the newest, middle() the one at index N div 2.
C1_SlotsHoldNewest ==
    K >= N =>
        /\ \A i \in 0..(N - 1) : getitem(image_buffer, i) = hist[K - N + i + 1]
        /\ first(image_buffer) = hist[K - N + 1]
        /\ last(image_buffer) = hist[K]
        /\ middle(image_buffer) = hist[K - N + (N \div 2) + 1]

C1_Witness ==
    /\ N = 3 /\ K = N + 1 /\ ret.op \in {"add", "fill"}
    /\ hist[1] # hist[2]
    /\ first(image_buffer) = hist[2]

\* C2: the fill-count is min(N, adds since creation or the last clear),
\* is_full() is true exactly when that count is N, and len(buffer) and the
\* number of slots stay N.
C2_CountCapped ==
    /\ C = Min(N, K)
    /\ C <= N
    /\ is_full(image_buffer) = (K >= N)
    /\ len(image_buffer) = N
    /\ Len(image_buffer.data) = N

C2_Witness ==
    /\ N >= 2 /\ K = N + 1 /\ C = N /\ is_full(image_buffer)

\* C3 (as claimed): with C >= 1 buffered frames, C < N included, first(),
\* middle() and last() are the frames at positions 0, C div 2 and C-1 of the
\* buffered frames, oldest first, and none of them is an empty slot.
C3_PartialAccessors ==
    (C >= 1 /\ C = Min(N, K)) =>
        /\ first(image_buffer) = hist[K - C + 1]
        /\ middle(image_buffer) = hist[K - C + (C \div 2) + 1]
        /\ last(image_buffer) = hist[K]
        /\ None \notin {first(image_buffer), middle(image_buffer),
                        last(image_buffer)}

\* the fill the last call made: its list or video, frames it still held,
\* and the free capacity it found
FillCall == ret.op = "fill"
SrcLen == Len(ret.source.image_stack)
Remaining == ret.source.num_frames - ret.source.current_frame_num
Free == N - ret.pre_count

\* C4: fill(list) on an empty buffer with a list of 1 <= L < N frames reuses
\* the list cyclically: slot i holds list[i mod L], last() is
\* list[(N-1) mod L].
C4_FillWraps ==
    (FillCall /\ ret.source.kind = "list" /\ ret.pre_count = 0
       /\ SrcLen >= 1 /\ SrcLen < N) =>
        /\ ret.err = OK
        /\ \A i \in 0..(N - 1) :
              getitem(image_buffer, i) = ret.source.image_stack[(i % SrcLen) + 1]
        /\ last(image_buffer) = ret.source.image_stack[((N - 1) % SrcLen) + 1]

C4_Witness ==
    /\ FillCall /\ ret.source.kind = "list" /\ ret.pre_count = 0
    /\ N = 3 /\ SrcLen = 2
    /\ ret.source.image_stack[1] # ret.source.image_stack[2]
    /\ last(image_buffer) = ret.source.image_stack[1]

C6_FillOnFullFails ==
    [][(ret'.op = "fill" /\ Full) =>
          /\ ret'.err = "AssertionError"
          /\ image_buffer' = image_buffer
          /\ ret'.pulled = 0
          /\ ret'.source_after = ret'.source]_vars

C6_Witness ==
    /\ FillCall /\ ret.err = "AssertionError" /\ Full
    /\ ret.pre_count = N /\ Remaining >= 1

\* C7 (as claimed): with C >= 1 buffered frames, C < N included,
\* as_image_stack_BW() returns exactly C grayscale planes, plane i being the
\* grayscale of the i-th oldest buffered frame.
C7_StackOfBuffered ==
    (ret.op = "as_image_stack_BW" /\ C >= 1) =>
        /\ ret.err = OK
        /\ Len(ret.stack) = C
        /\ \A i \in 1..C : ret.stack[i] = as_grayscale(hist[K - C + i])

\* a detector whose configuration lets a background model be built
ValidConfig ==
    /\ method \in {BG_SUBTRACT_STATIC, BG_SUBTRACT_FRAME_DIFF,
                   BG_SUBTRACT_MEDIAN, BG_SUBTRACT_APPROX_MEDIAN}
    /\ (method = BG_SUBTRACT_STATIC) = (bg_image # None)

DetectCall == det # "none" /\ ret.op = "detect"
D == Len(dhist)
StillUnset ==
    /\ md_foreground_mask = NoImage
    /\ key_frame = None
    /\ contours = <<>>

\* C8 (as claimed): for every detector, on its own buffer or on a
\* caller-supplied one, each of the first k < N detect calls returns -1 and
\* leaves the mask and the key frame unset and the contour list empty.
C8_FirstCallsFilling ==
    (DetectCall /\ D < N) =>
        /\ ret.err = OK /\ ret.val = -1
        /\ StillUnset

\* C8 (amended): for a detector on its own buffer, or on a caller-supplied
\* buffer that is empty when handed over and that the caller does not change
\* afterwards, each of the first k < N detect calls returns -1, leaves the
\* mask and the key frame unset and the contour list empty, and only adds
\* its frame to the buffer.
C8_FirstCallsFillingFromEmpty ==
    (DetectCall /\ D < N
       /\ (det = "own" \/ (start_count = 0 /\ touched = 0))) =>
        /\ ret.err = OK /\ ret.val = -1
        /\ StillUnset
        /\ bgSubtract = NoModel
        /\ C = D
        /\ \A i \in 1..D : image_buffer.data[N - D + i] = dhist[i]

C8_Witness ==
    /\ DetectCall /\ det = "shared" /\ start_count = 0 /\ touched = 0
    /\ N = 3 /\ D = 2 /\ ret.val = -1

C11_RawContourCount ==
    (DetectCall /\ ret.err = OK /\ ret.val # -1) =>
        /\ ret.val >= 0
        /\ ret.val = Len(contours)
        /\ \A M \in MinAreas, rt \in RectTypes :
              LET r == get_rects(contours, M, rt, None) IN
              r.err = OK /\ ret.val >= Len(r.rects)

C11_Witness ==
    /\ DetectCall /\ ret.err = OK /\ ret.val = 2
    /\ Len(get_rects(contours, min_area, MD_BOUNDING_RECTS, None).rects) = 1
    /\ Len(get_rects(contours, 0, MD_STANDARDIZED_RECTS, None).rects) = 2

\* the number of elements of an export derived from contour i
FromContour(out, i) == Cardinality({k \in 1..Len(out) : out[k].contour = i})
Exported == ret.op \in {"bounding_rects", "standardized_rects", "polygons"}

\* C12: for every min_area M >= 0 and every contour list, bounding_rects(),
\* standardized_rects() (no rect_filter) and polygons() return exactly one
\* element for each contour whose area is strictly greater than M and none
\* for a contour whose area is <= M; polygons(return_all=True) returns one
\* polygon per contour regardless of area.
C12_OnePerLargeContour ==
    /\ (Exported /\ rect_filter = None /\ minArea >= 0) =>
          /\ ret.err = OK
          /\ \A k \in 1..Len(ret.val) : ret.val[k].contour \in 1..Len(contours)
          /\ \A i \in 1..Len(contours) :
                FromContour(ret.val, i) =
                    IF contourArea(contours[i]) > minArea THEN 1 ELSE 0
    /\ ret.op = "polygons_all" =>
          /\ Len(ret.val) = Len(contours)
          /\ \A i \in 1..Len(contours) : FromContour(ret.val, i) = 1

C12_Witness ==
    /\ ret.op = "standardized_rects" /\ rect_filter = None
    /\ Len(contours) = 2 /\ Len(ret.val) = 1
    /\ \E i \in 1..2 : contourArea(contours[i]) = minArea

\* C13: convex_hulls() never returns a hull polygon derived from a contour
\* whose area is <= min_area.
C13_HullsAboveMinArea ==
    (ret.op = "convex_hulls" /\ ret.err = OK) =>
        \A k \in 1..Len(ret.val) :
            contourArea(contours[ret.val[k].contour]) > minArea

Masked == ret.op = "foreground_mask"

\* C14: hard-threshold mode: for every difference value d (positive, zero
\* or negative) and every threshold T the mask pixel is 255 when |d| > T and
\* 0 otherwise (|d| = T gives 0); the mask never holds another value.
C14_HardMask ==
    (Masked /\ ~args.soft) =>
        \A i \in 1..Len(args.diff) :
            /\ ret.stack[i] \in {0, 255}
            /\ (ret.stack[i] = 255) = (Abs(args.diff[i]) > 2 * args.threshold)

C14_Witness ==
    /\ Masked /\ ~args.soft /\ args.threshold = thresh
    /\ args.diff[1] = -2 * thresh - 1
    /\ ret.stack[1] = 255

\* C15: soft-threshold mode: for every difference value d a model can
\* produce (negative ones of the median models included) and every T > 0
\* the mask pixel depends only on |d|, is non-decreasing in |d| and lies in
\* 0..254.
C15_SoftMask ==
    (Masked /\ args.soft /\ args.threshold > 0) =>
        \A i, j \in 1..Len(args.diff) :
            /\ ret.stack[i] \in 0..254
            /\ Abs(args.diff[i]) = Abs(args.diff[j]) =>
                   ret.stack[i] = ret.stack[j]
            /\ Abs(args.diff[i]) <= Abs(args.diff[j]) =>
                   ret.stack[i] <= ret.stack[j]

\* C16: for 8-bit grayscale frames the StaticModel difference equals
\* |a - b| for every current value a and reference value b in 0..255, also
\* when a < b: the subtraction does not wrap modulo 256.
C16_StaticAbsDiff ==
    ret.op = "static_diff" =>
        ret.val = Abs(args.px[1] - args.px[2])

\* C17: the FrameDifferenceModel difference equals
\* min(|middle - first|, |last - middle|) for every triple of 8-bit values,
\* increasing or decreasing; so in hard mode a pixel is foreground exactly
\* when it changed by more than T relative to both the first and the last
\* frame.
C17_FrameDiffMin ==
    ret.op = "frame_diff" =>
        LET d1 == Abs(args.px[2] - args.px[1])
            d2 == Abs(args.px[3] - args.px[2])
        IN /\ ret.val = Min(d1, d2)
           /\ (ret.stack[1] = 255) =
                  (d1 > args.threshold /\ d2 > args.threshold)

\* C18: for every buffer capacity (odd or even) and every pixel, one
\* ApproximateMedianModel update changes the estimate by +1 when the newest
\* value is greater, by -1 when it is smaller and by 0 when it is equal; the
\* estimate never moves away from the newest value and, when it was within
\* 1 of the newest value before the update, it is never on the other side
\* of it afterwards.
C18_OneStepTowards ==
    ret.op = "update_median" =>
        LET b == args.before
            a == args.medians
            c == 2 * args.cur
        IN /\ c > b => a = b + 2
           /\ c < b => a = b - 2
           /\ c = b => a = b
           /\ Abs(a - c) <= Abs(b - c)
           /\ Abs(b - c) <= 2 => ~((b < c /\ a > c) \/ (b > c /\ a < c))

\* C19: constructing a StaticModel without a reference image raises a
\* configuration error during construction, so no StaticModel without a
\* reference ever exists and foreground_mask() is never reached on one.
C19_StaticNeedsReference ==
    /\ (ret.op = BG_SUBTRACT_STATIC /\ ret.val = None) =>
          ret.err = "ValueError"
    /\ bgSubtract.kind = BG_SUBTRACT_STATIC => bgSubtract.bg_array # None

C19_Witness ==
    /\ ret.op = BG_SUBTRACT_STATIC /\ ret.val = None
    /\ ret.err = "ValueError"
    /\ Full /\ bgSubtract = NoModel

\* the grey values of the N frames a full buffer holds, oldest first
Buffered == [i \in 1..N |-> as_grayscale(hist[K - N + i])]

\* C20: constructing an ApproximateMedianModel on a buffer that is not full
\* raises an error and reads no frame of the buffer; it succeeds only when
\* is_full() holds, and then the estimate is initialised to the per-pixel
\* median of the N buffered frames.
C20_ApproxMedianNeedsFull ==
    ret.op = BG_SUBTRACT_APPROX_MEDIAN =>
        IF Full
        THEN /\ ret.err = OK
             /\ bgSubtract.kind = BG_SUBTRACT_APPROX_MEDIAN
             /\ bgSubtract.id = nModels
             /\ bgSubtract.medians = median(Buffered)
        ELSE ret.err = "ValueError"

C20_Witness ==
    /\ ret.op = BG_SUBTRACT_APPROX_MEDIAN /\ ret.err = "ValueError"
    /\ ~Full /\ C > 0

\* C21: constructing a MotionDetector with an unrecognized
\* background-subtraction method or an unrecognized rectangle type raises a
\* configuration error at construction time, before any detect or get_rects
\* call is made.
C21_ConfigCheckedAtConstruction ==
    (ret.op = "MotionDetector"
       /\ (method \notin ModelKinds \/ rect_type \notin RectTypes)) =>
        ret.err = "ValueError"

AnnotateCall == ret.op = "annotate_frame"

\* C24: in every detector state (before any detect call, while Filling and
\* when Active) and for every choice of colours, annotate_frame(key_frame=f)
\* returns the object f that was passed in, and annotate_frame() without a
\* frame returns the internal key frame; it returns nothing only when no
\* frame is passed and no detect call has yet succeeded; it never raises.
C24_AnnotateReturnsFrame ==
    AnnotateCall =>
        /\ ret.err = OK
        /\ ret.pulled # None => ret.val = ret.pulled
        /\ ret.pulled = None => ret.val = key_frame
        /\ (ret.val = None) = (ret.pulled = None /\ ~everCount)

MaskStep == ret'.op = "foreground_mask" /\ ret'.err = OK /\ Full
MaskAgain == ret.op = "foreground_mask" /\ ret.err = OK

\* C22 (as claimed): for each of the four background models on a full
\* buffer foreground_mask() is a pure function of the buffer contents: two
\* consecutive calls with no add in between return the same mask, and a
\* call leaves the model's state unchanged.
C22_MaskIsPure ==
    [][MaskStep =>
          /\ bgSubtract' = bgSubtract
          /\ MaskAgain => ret'.val = ret.val]_vars

\* C22 (amended): for the static, frame-difference and median models on a
\* full buffer two consecutive foreground_mask() calls return the same mask
\* and the second leaves the model's state unchanged; a first call changes
\* nothing of a static or frame-difference model and of a median model
\* only the gray-scale stack of the buffer it keeps. A call on an
\* ApproximateMedianModel moves its estimate one unit towards the newest
\* frame (not at all where they are equal) and changes nothing else of it.
C22_MaskIsPureButApproxMedian ==
    [][MaskStep =>
          IF bgSubtract.kind # BG_SUBTRACT_APPROX_MEDIAN
          THEN /\ bgSubtract' = [bgSubtract EXCEPT !.imageStack =
                                     bgSubtract'.imageStack]
               /\ bgSubtract'.imageStack =
                     IF bgSubtract.kind = BG_SUBTRACT_MEDIAN
                     THEN as_image_stack_BW(image_buffer, None).stack
                     ELSE <<>>
               /\ MaskAgain => bgSubtract' = bgSubtract /\ ret'.val = ret.val
          ELSE LET cur == 2 * as_grayscale(last(image_buffer))
                   m == bgSubtract.medians
               IN /\ bgSubtract' = [bgSubtract EXCEPT !.medians =
                                        bgSubtract'.medians]
                  /\ bgSubtract'.medians - m =
                        IF cur > m THEN 2 ELSE IF cur < m THEN -2 ELSE 0]_vars

C22_Witness ==
    /\ ret.op = "foreground_mask" /\ ret.err = OK /\ Full /\ nMasks = 2
    /\ bgSubtract.kind = BG_SUBTRACT_MEDIAN /\ ret.val = 255

FirstMasked == args.op = "first_mask" /\ args.called

\* C23: a fresh ApproximateMedianModel on a full buffer
\* returns on its first foreground_mask() call exactly the mask a
\* MedianModel with the same threshold returns on the same buffer, whatever
\* the buffer holds.
C23_FirstMaskAsMedian ==
    FirstMasked => args.approx = args.exact

\* a call on the sequential video
Sought(n) ==
    vids.op = "video" /\ vids.call.op = "seek_to" /\ vids.call.frame_num = n
NextCall == vids.op = "video" /\ vids.call.op = "next" /\ vids.sought

\* C26 (as claimed): on a sequential video of at least n frames seek_to(n)
\* from any position leaves current_frame_num = n, and each following
\* next() increases current_frame_num by exactly 1.
C26_SeekThenNext ==
    /\ \A n \in 0..MaxFrames :
          (Sought(n) /\ n <= vids.seq.num_frames) =>
              vids.seq.current_frame_num = n
    /\ NextCall => vids.seq.current_frame_num = vids.call.before + 1

\* C26 (amended): on a sequential video of at least n frames seek_to(n)
\* from any position leaves current_frame_num = n; each following next()
\* that returns a frame increases current_frame_num by exactly 1, and a
\* next() at the end of the video raises and leaves it as it is.
C26_SeekThenNextFrame ==
    /\ \A n \in 0..MaxFrames :
          (Sought(n) /\ n <= vids.seq.num_frames) =>
              vids.seq.current_frame_num = n
    /\ NextCall =>
          /\ vids.call.seq.err = OK =>
                vids.seq.current_frame_num = vids.call.before + 1
          /\ vids.call.seq.err # OK =>
                /\ vids.call.before = vids.seq.num_frames
                /\ vids.seq.current_frame_num = vids.call.before

C26_Witness ==
    /\ NextCall /\ vids.call.seq.err = OK /\ vids.prev.op = "seek_to"
    /\ vids.prev.before > vids.prev.frame_num /\ vids.prev.frame_num > 0

\* C29: seek_to(n) followed by next() yields the same frames on a
\* sequential and on a random-access video over the same sequence: both
\* calls return frames of the same index in both kinds, and next() does
\* not return the frame seek_to just returned.
C29_SeekSameFrames ==
    (vids.op = "video" /\ vids.call.op = "next"
       /\ vids.prev.op = "seek_to"
       /\ vids.prev.frame_num < vids.seq.num_frames) =>
        /\ vids.prev.seq = vids.prev.ra
        /\ vids.call.seq = vids.call.ra
        /\ vids.call.seq.val # vids.prev.seq.val
        /\ vids.call.ra.val # vids.prev.ra.val

\* C27: when the newest buffered frame holds the same value v at a pixel
\* from some call on, the estimate of the ApproximateMedianModel, m at that
\* call, equals v after at most ceil(|m - v|) further foreground_mask()
\* calls and on every later call, whatever the capacity of the buffer.
C27_ConvergesToSteadyFrame ==
    (args.op = "steady" /\ args.held
       /\ 2 * args.calls >= Abs(args.m - 2 * args.v)) =>
        args.medians = 2 * args.v

AfterInitError == DetectCall /\ initErr # OK
CannotConstruct ==
    \/ method \notin ModelKinds
    \/ method = BG_SUBTRACT_STATIC /\ bg_image = None

\* C30 (as claimed): when a detect call raises because the background
\* model cannot be constructed, its frame has been added to the buffer, no
\* model is installed, the mask and the key frame stay unset, and every
\* later detect call raises the same error again.
C30_InitErrorOnEveryLaterCall ==
    AfterInitError =>
        /\ ret.err = initErr
        /\ last(image_buffer) = dhist[D]
        /\ bgSubtract = NoModel
        /\ md_foreground_mask = NoImage /\ key_frame = None

\* C30 (amended): a detect call that finds the buffer full after its add
\* raises ValueError when the method is unknown or is the static one
\* without a reference image; after a call that could not construct the
\* model the frame of every call is in the buffer, no model is installed,
\* the mask and the key frame stay unset, and every later call raises the
\* same error when it finds the buffer full and returns -1 otherwise,
\* which happens only on a buffer of the caller.
C30_InitErrorWhileFull ==
    /\ (DetectCall /\ Full /\ CannotConstruct) =>
          ret.err = "ValueError" /\ initErr = "ValueError"
    /\ AfterInitError =>
          /\ IF Full THEN ret.err = initErr
                     ELSE ret.err = OK /\ ret.val = -1
          /\ det = "own" => Full
          /\ last(image_buffer) = dhist[D]
          /\ bgSubtract = NoModel
          /\ md_foreground_mask = NoImage /\ key_frame = None

C30_Witness ==
    /\ AfterInitError /\ method = BG_SUBTRACT_MCFD /\ ret.err = "ValueError"
    /\ N = 2 /\ D = 3 /\ touched = 0

====
